---- MODULE Spec2Model ----
(***************************************************************************)
(* A model of the two client utilities of the repository:                  *)
(*   - droidrun/test_websocket.py : the WebSocket event listener           *)
(*     (main, setup_adb_forward, test_connection);                         *)
(*   - vision_client.py : VisionClient and its command-line main flow.     *)
(* Text frames and HTTP bodies are sequences of lexical tokens; json.loads *)
(* and json.dumps are modelled as a parser and a printer over them.        *)
(***************************************************************************)
EXTENDS Integers, Sequences, FiniteSets, TLC

VARIABLES
    \* ---- listener (test_websocket.py) ----
    pc,            \* position of the listener program
    argv,          \* sys.argv, each argument a sequence of characters
    port,          \* the local `port`
    conn,          \* the WebSocket connection: "none", "open", "closed"
    sent,          \* frames sent on the connection
    msg,           \* the frame returned by the last websocket.recv()
    nframes,       \* frames received so far on the connection
    out,           \* lines printed by the last step
    pingLog,       \* which PING/PONG verdict has been printed
    exc,           \* the exception that ended the session ("none" if none)
    exitCode,      \* process exit status (-1 while running)
    adbCalls,      \* invocations of `adb forward`
    connectCalls,  \* calls of websockets.connect
    \* ---- vision client (vision_client.py) ----
    vpc,           \* position of the vision main flow / of the API caller
    call,          \* the last method call: method, image argument, question
    outcome,       \* what the last HTTP request met
    image_data,    \* result of get_screenshot
    explanation,   \* result of upload_image_for_explanation
    raised,        \* exception that escaped the last method call
    reqs,          \* HTTP requests issued by this invocation / call, in order
    vout,          \* lines printed by the vision program
    ncalls,        \* API calls made by the caller
    args,          \* the parsed command line of the vision tool
    client         \* the VisionClient: its two URLs and its token

lvars == <<pc, argv, port, conn, sent, msg, nframes, out, pingLog, exc,
           exitCode, adbCalls, connectCalls>>
vvars == <<vpc, call, outcome, image_data, explanation, raised, reqs, vout, ncalls,
           args, client>>
vars == <<lvars, vvars>>

\* ---- bounds of the model ----
MaxFrames == 3
MaxArgLen == 2
MaxCalls == 2

DEFAULT_PORT == 8081

(***************************************************************************)
(* JSON values and tokens                                                  *)
(***************************************************************************)
Tok(k, s) == [k |-> k, s |-> s]
LBrace == Tok("punct", "{")
RBrace == Tok("punct", "}")
LBrack == Tok("punct", "[")
RBrack == Tok("punct", "]")
Colon == Tok("punct", ":")
Comma == Tok("punct", ",")

\* A JSON value as Python holds it after json.loads. A dict keeps its entries
\* in insertion order; a list's entries have the key "".
Val(t, s, items) == [t |-> t, s |-> s, items |-> items]
Num(s) == Val("num", s, <<>>)
Str(s) == Val("str", s, <<>>)
PyNone == Val("lit", "null", <<>>)
PyTrue == Val("lit", "true", <<>>)
PyFalse == Val("lit", "false", <<>>)
Entry(k, v) == [k |-> k, v |-> v]
List(vs) == Val("list", "", [i \in 1..Len(vs) |-> Entry("", vs[i])])
Dict(es) == Val("dict", "", es)

\* dict.__setitem__ while a dict is built: a repeated key keeps its first
\* position and takes the last value.
DictSet(es, k, v) ==
    IF \E i \in 1..Len(es) : es[i].k = k
    THEN [i \in 1..Len(es) |-> IF es[i].k = k THEN Entry(k, v) ELSE es[i]]
    ELSE Append(es, Entry(k, v))

\* dict.get(key, default)
DictGet(d, k, default) ==
    IF \E i \in 1..Len(d.items) : d.items[i].k = k
    THEN d.items[CHOOSE i \in 1..Len(d.items) : d.items[i].k = k].v
    ELSE default

HasKey(d, k) == \E i \in 1..Len(d.items) : d.items[i].k = k

\* json.dumps: the token sequence of a value.
RECURSIVE Dumps(_)
RECURSIVE DumpItems(_, _, _)
DumpItems(es, i, isDict) ==
    IF i > Len(es) THEN <<>>
    ELSE (IF i > 1 THEN <<Comma>> ELSE <<>>)
         \o (IF isDict THEN <<Tok("str", es[i].k), Colon>> ELSE <<>>)
         \o Dumps(es[i].v)
         \o DumpItems(es, i + 1, isDict)

Dumps(v) ==
    CASE v.t = "dict" -> <<LBrace>> \o DumpItems(v.items, 1, TRUE) \o <<RBrace>>
      [] v.t = "list" -> <<LBrack>> \o DumpItems(v.items, 1, FALSE) \o <<RBrack>>
      [] OTHER -> <<Tok(v.t, v.s)>>

\* json.loads: recursive descent over the tokens. A result is
\* [ok, val, next]; ok = FALSE stands for json.JSONDecodeError.
ParseFail == [ok |-> FALSE, val |-> PyNone, next |-> 0]
ParseOk(v, n) == [ok |-> TRUE, val |-> v, next |-> n]

RECURSIVE ParseValue(_, _)
RECURSIVE ParseMembers(_, _, _, _)
\* Members of a container from position i on, after "[" / "{" or after ",".
ParseMembers(ts, i, acc, isDict) ==
    LET keyOk == ~isDict \/ (i + 1 <= Len(ts) /\ ts[i].k = "str" /\ ts[i + 1] = Colon)
        vpos == IF isDict THEN i + 2 ELSE i
        r == ParseValue(ts, vpos)
        key == IF isDict THEN ts[i].s ELSE ""
        acc2 == IF isDict THEN DictSet(acc, key, r.val) ELSE Append(acc, Entry("", r.val))
        closer == IF isDict THEN RBrace ELSE RBrack
    IN  IF i > Len(ts) \/ ~keyOk THEN ParseFail
        ELSE IF ~r.ok \/ r.next > Len(ts) THEN ParseFail
        ELSE IF ts[r.next] = closer
             THEN ParseOk(Val(IF isDict THEN "dict" ELSE "list", "", acc2), r.next + 1)
        ELSE IF ts[r.next] = Comma
             THEN ParseMembers(ts, r.next + 1, acc2, isDict)
        ELSE ParseFail

ParseValue(ts, i) ==
    IF i > Len(ts) THEN ParseFail
    ELSE LET tk == ts[i] IN
         CASE tk.k \in {"num", "str", "lit"} -> ParseOk(Val(tk.k, tk.s, <<>>), i + 1)
           [] tk = LBrace ->
                IF i + 1 <= Len(ts) /\ ts[i + 1] = RBrace
                THEN ParseOk(Dict(<<>>), i + 2)
                ELSE ParseMembers(ts, i + 1, <<>>, TRUE)
           [] tk = LBrack ->
                IF i + 1 <= Len(ts) /\ ts[i + 1] = RBrack
                THEN ParseOk(List(<<>>), i + 2)
                ELSE ParseMembers(ts, i + 1, <<>>, FALSE)
           [] OTHER -> ParseFail

\* json.loads(text): the whole text must be one value ("Extra data" fails).
JsonLoads(ts) ==
    LET r == ParseValue(ts, 1)
    IN  IF r.ok /\ r.next = Len(ts) + 1
        THEN [ok |-> TRUE, val |-> r.val]
        ELSE [ok |-> FALSE, val |-> PyNone]

\* Python truthiness of a JSON value.
Truthy(v) ==
    CASE v.t \in {"dict", "list"} -> Len(v.items) > 0
      [] v.t = "str" -> v.s # ""
      [] v.t = "num" -> v.s # "0"
      [] OTHER -> v.s = "true"

(***************************************************************************)
(* int(sys.argv[1]): optional surrounding blanks, an optional sign, then   *)
(* decimal digits which single underscores may separate.                   *)
(***************************************************************************)
DigitChars == <<"0", "1", "2", "3", "4", "5", "6", "7", "8", "9">>
IsDigit(c) == \E i \in 1..Len(DigitChars) : DigitChars[i] = c
DigitVal(c) == (CHOOSE i \in 1..Len(DigitChars) : DigitChars[i] = c) - 1

RECURSIVE DigitsValue(_, _, _, _)
DigitsValue(s, i, last, acc) ==
    IF i > last THEN acc
    ELSE DigitsValue(s, i + 1, last,
                     IF IsDigit(s[i]) THEN 10 * acc + DigitVal(s[i]) ELSE acc)

\* [ok, val]; ok = FALSE stands for ValueError.
PyInt(s) ==
    LET nonblank == {i \in 1..Len(s) : s[i] # " "}
        first == CHOOSE i \in nonblank : \A j \in nonblank : i <= j
        last == CHOOSE i \in nonblank : \A j \in nonblank : j <= i
        signed == s[first] \in {"+", "-"}
        a == IF signed THEN first + 1 ELSE first
        wellFormed ==
            /\ a <= last
            /\ \A i \in a..last : IsDigit(s[i]) \/ s[i] = "_"
            /\ s[a] # "_" /\ s[last] # "_"
            /\ \A i \in a..(last - 1) : ~(s[i] = "_" /\ s[i + 1] = "_")
        magnitude == DigitsValue(s, a, last, 0)
    IN  IF nonblank = {} THEN [ok |-> FALSE, val |-> 0]
        ELSE IF ~wellFormed THEN [ok |-> FALSE, val |-> 0]
        ELSE [ok |-> TRUE, val |-> IF s[first] = "-" THEN 0 - magnitude ELSE magnitude]

(***************************************************************************)
(* Printed lines                                                           *)
(***************************************************************************)
Line(kind, key, val, val2, raw) ==
    [kind |-> kind, key |-> key, val |-> val, val2 |-> val2, raw |-> raw]
Msg(kind) == Line(kind, "", PyNone, PyNone, <<>>)
ErrorLine(e) == Line("error", e, PyNone, PyNone, <<>>)
ReceivedLine(m) == Line("received", "", PyNone, PyNone, m)
RawLine(m) == Line("raw_event", "", PyNone, PyNone, m)
HeaderLine(ty, ts) == Line("header", "", ty, ts, <<>>)
KVLine(k, v) == Line("kv", k, v, PyNone, <<>>)
ScalarLine(v) == Line("payload", "payload", v, PyNone, <<>>)
Banner == <<Msg("rule"), Msg("listening"), Msg("trigger_hint"), Msg("rule")>>

(***************************************************************************)
(* Inputs of the listener: command lines and frames the server may send    *)
(***************************************************************************)
ArgChars == {"8", "a", "-", " ", "_"}
RECURSIVE StringsUpTo(_)
StringsUpTo(n) ==
    IF n = 0 THEN {<<>>}
    ELSE LET shorter == StringsUpTo(n - 1)
         IN  shorter \cup {Append(s, c) : s \in shorter, c \in ArgChars}
Prog == <<"t", "e", "s", "t">>
CommandLines == {<<Prog>>} \cup {<<Prog, a>> : a \in StringsUpTo(MaxArgLen)}

PayloadValues ==
    { Num("1"), Str("x"), PyNone, List(<<>>), List(<<Num("1")>>), Dict(<<>>),
      Dict(<<Entry("a", Num("1"))>>),
      Dict(<<Entry("a", Num("1")), Entry("b", Str("x"))>>),
      Dict(<<Entry("b", Str("x")), Entry("a", Num("1"))>>),
      Dict(<<Entry("a", Dict(<<Entry("c", PyNone)>>))>>) }
TypeOpts == {<<>>} \cup {<<Entry("type", v)>> : v \in {Str("PONG"), Str("NOTIFICATION"), PyNone}}
StampOpts == {<<>>, <<Entry("timestamp", Num("1"))>>}
PayloadOpts == {<<>>} \cup {<<Entry("payload", v)>> : v \in PayloadValues}
Events == {Dict(a \o b \o c) : a \in TypeOpts, b \in StampOpts, c \in PayloadOpts}
NonObjects ==
    { Num("0"), Num("1"), Str(""), Str("PONG"), PyNone, PyTrue, PyFalse,
      List(<<>>), List(<<Str("PONG")>>) }
JsonTexts == {Dumps(v) : v \in Events \cup NonObjects}
OtherTexts ==
    { <<>>,
      <<Tok("junk", "hello")>>,
      <<LBrace>>,
      <<LBrace, Tok("str", "type"), Colon>>,
      <<LBrack, Tok("num", "1"), Comma, RBrack>>,
      <<Tok("str", "type"), Colon, Tok("str", "PONG")>>,
      <<LBrace, Tok("str", "type"), Colon, Tok("str", "PONG"), RBrace, RBrace>>,
      <<LBrace, Tok("str", "payload"), Colon, Tok("num", "1"), Comma,
        Tok("str", "payload"), Colon, LBrace, RBrace, RBrace>> }
Frames == JsonTexts \cup OtherTexts

(***************************************************************************)
(* test_websocket.py                                                       *)
(***************************************************************************)
ping_event == Dict(<<Entry("type", Str("PING")), Entry("timestamp", Num("123456789"))>>)

\* A variant that leaves the connection as it is when the block is left.
AsyncWithExit_Leak(c) == c

\* Leaving `async with websockets.connect(uri) as websocket`: __aexit__
\* closes the connection however the block is left.
AsyncWithExit(c) == IF c = "open" THEN "closed" ELSE c

\* Lines 49-60: the liveness check on the first frame. [out, exc, verdict].
PingCheck(response) ==
    LET data == JsonLoads(response)
    IN  IF ~data.ok
        THEN [out |-> <<ReceivedLine(response)>>, exc |-> "JSONDecodeError",
              verdict |-> "none"]
        ELSE IF data.val.t # "dict"
        THEN [out |-> <<ReceivedLine(response)>>, exc |-> "AttributeError",
              verdict |-> "none"]
        ELSE IF DictGet(data.val, "type", PyNone) = Str("PONG")
        THEN [out |-> <<ReceivedLine(response), Msg("ping_passed")>> \o Banner,
              exc |-> "none", verdict |-> "passed"]
        ELSE [out |-> <<ReceivedLine(response), Msg("ping_failed")>> \o Banner,
              exc |-> "none", verdict |-> "failed"]

\* A variant of the loop body without the `except json.JSONDecodeError`
\* clause: the decode error leaves the loop.
LoopBody_FatalDecode(m) ==
    LET event == JsonLoads(m)
        payload == DictGet(event.val, "payload", Dict(<<>>))
    IN  IF ~event.ok
        THEN [out |-> <<>>, exc |-> "JSONDecodeError"]
        ELSE IF event.val.t # "dict"
        THEN [out |-> <<>>, exc |-> "AttributeError"]
        ELSE [out |-> <<HeaderLine(DictGet(event.val, "type", Str("UNKNOWN")),
                                   DictGet(event.val, "timestamp", Str("")))>>
                      \o (IF payload.t = "dict"
                          THEN [i \in 1..Len(payload.items) |->
                                   KVLine(payload.items[i].k, payload.items[i].v)]
                          ELSE <<ScalarLine(payload)>>)
                      \o <<Msg("blank")>>,
              exc |-> "none"]

\* A variant of the loop body reading event.get("payload") with no default:
\* an absent payload is None and printed as a scalar.
LoopBody_NoDefault(m) ==
    LET event == JsonLoads(m)
        payload == DictGet(event.val, "payload", PyNone)
    IN  IF ~event.ok
        THEN [out |-> <<RawLine(m)>>, exc |-> "none"]
        ELSE IF event.val.t # "dict"
        THEN [out |-> <<>>, exc |-> "AttributeError"]
        ELSE [out |-> <<HeaderLine(DictGet(event.val, "type", Str("UNKNOWN")),
                                   DictGet(event.val, "timestamp", Str("")))>>
                      \o (IF payload.t = "dict"
                          THEN [i \in 1..Len(payload.items) |->
                                   KVLine(payload.items[i].k, payload.items[i].v)]
                          ELSE <<ScalarLine(payload)>>)
                      \o <<Msg("blank")>>,
              exc |-> "none"]

\* Lines 64-78: the body of the receive loop for one frame. [out, exc].
LoopBody(m) ==
    LET event == JsonLoads(m)
        event_type == DictGet(event.val, "type", Str("UNKNOWN"))
        timestamp == DictGet(event.val, "timestamp", Str(""))
        payload == DictGet(event.val, "payload", Dict(<<>>))
    IN  IF ~event.ok
        THEN [out |-> <<RawLine(m)>>, exc |-> "none"]
        ELSE IF event.val.t # "dict"
        THEN [out |-> <<>>, exc |-> "AttributeError"]
        ELSE [out |-> <<HeaderLine(event_type, timestamp)>>
                      \o (IF payload.t = "dict"
                          THEN [i \in 1..Len(payload.items) |->
                                   KVLine(payload.items[i].k, payload.items[i].v)]
                          ELSE <<ScalarLine(payload)>>)
                      \o <<Msg("blank")>>,
              exc |-> "none"]

\* Lines 80-84 and 104-107: how an exception leaves test_connection and main.
\* [out, exitCode].
Handle(e) ==
    CASE e = "ConnectionRefusedError" ->
            [out |-> <<Msg("connection_failed"), Msg("enable_hint")>>, exitCode |-> 0]
      [] e = "KeyboardInterrupt" ->
            [out |-> <<Msg("stopped_by_user")>>, exitCode |-> 0]
      [] OTHER ->
            [out |-> <<ErrorLine(e)>>, exitCode |-> 0]

ListenerInit ==
    /\ pc = "main"
    /\ argv \in CommandLines
    /\ port = DEFAULT_PORT
    /\ conn = "none"
    /\ sent = <<>>
    /\ msg = <<>>
    /\ nframes = 0
    /\ out = <<>>
    /\ pingLog = "none"
    /\ exc = "none"
    /\ exitCode = -1
    /\ adbCalls = 0
    /\ connectCalls = 0

\* The session ends with exception e: the connection is released, the
\* handler prints, main returns.
EndSession(e, printed) ==
    /\ conn' = AsyncWithExit(conn)
    /\ exc' = e
    /\ out' = printed \o Handle(e).out
    /\ exitCode' = Handle(e).exitCode
    /\ pc' = "exited"

\* A variant of main that falls back to the default port on a ValueError.
Main_FallBack ==
    /\ pc = "main"
    /\ port' = IF Len(argv) > 1 /\ PyInt(argv[2]).ok THEN PyInt(argv[2]).val ELSE DEFAULT_PORT
    /\ out' = <<>>
    /\ pc' = "adb"
    /\ UNCHANGED <<exitCode, exc>>
    /\ UNCHANGED <<argv, conn, sent, msg, nframes, pingLog, adbCalls, connectCalls>>
    /\ UNCHANGED vvars

\* main, lines 87-97: parse the optional port argument.
Main ==
    /\ pc = "main"
    /\ IF Len(argv) > 1 /\ ~PyInt(argv[2]).ok
       THEN /\ out' = <<Msg("usage"), Msg("default_port")>>
            /\ exitCode' = 1
            /\ pc' = "exited"
            /\ exc' = "SystemExit"
            /\ port' = port
       ELSE /\ port' = IF Len(argv) > 1 THEN PyInt(argv[2]).val ELSE DEFAULT_PORT
            /\ out' = <<>>
            /\ pc' = "adb"
            /\ UNCHANGED <<exitCode, exc>>
    /\ UNCHANGED <<argv, conn, sent, msg, nframes, pingLog, adbCalls, connectCalls>>
    /\ UNCHANGED vvars

\* setup_adb_forward, lines 10-30, and its caller, lines 100-101, up to the
\* await of websockets.connect (lines 34-38).
AdbResults == {"rc0", "rc_nonzero", "FileNotFoundError", "Exception"}
SetupAdbForward ==
    /\ pc = "adb"
    /\ \E result \in AdbResults :
         out' = <<Msg("adb_setup")>>
                \o (CASE result = "rc0" -> <<Msg("adb_ok")>>
                      [] result = "rc_nonzero" -> <<Msg("adb_failed"), Msg("continuing")>>
                      [] result = "FileNotFoundError" -> <<Msg("adb_not_found"), Msg("continuing")>>
                      [] OTHER -> <<Msg("adb_error"), Msg("continuing")>>)
                \o <<Msg("connecting")>>
    /\ adbCalls' = adbCalls + 1
    /\ pc' = "connect"
    /\ UNCHANGED <<argv, port, conn, sent, msg, nframes, pingLog, exc, exitCode, connectCalls>>
    /\ UNCHANGED vvars

\* websockets.connect(uri), line 38, and lines 39-44 up to the await of send.
Connect ==
    /\ pc = "connect"
    /\ connectCalls' = connectCalls + 1
    /\ \/ /\ port \in 1..65535
          /\ conn' = "open"
          /\ out' = <<Msg("connected"), Msg("sending_ping")>>
          /\ pc' = "send"
          /\ UNCHANGED <<exc, exitCode>>
       \/ /\ port \in 1..65535
          /\ EndSession("ConnectionRefusedError", <<>>)
       \/ EndSession("OSError", <<>>)
    /\ UNCHANGED <<argv, port, sent, msg, nframes, pingLog, adbCalls>>
    /\ UNCHANGED vvars

\* await websocket.send(json.dumps(ping_event)), line 44, then line 47.
SendPing ==
    /\ pc = "send"
    /\ sent' = Append(sent, Dumps(ping_event))
    /\ out' = <<Msg("waiting")>>
    /\ pc' = "recv_first"
    /\ UNCHANGED <<argv, port, conn, msg, nframes, pingLog, exc, exitCode, adbCalls, connectCalls>>
    /\ UNCHANGED vvars

\* response = await websocket.recv(), line 48, and the check, lines 49-60.
RecvFirst ==
    /\ pc = "recv_first"
    /\ \E response \in Frames :
         LET r == PingCheck(response)
         IN  /\ msg' = response
             /\ nframes' = nframes + 1
             /\ pingLog' = r.verdict
             /\ IF r.exc = "none"
                THEN /\ out' = r.out
                     /\ pc' = "loop"
                     /\ UNCHANGED <<conn, exc, exitCode>>
                ELSE EndSession(r.exc, r.out)
    /\ UNCHANGED <<argv, port, sent, adbCalls, connectCalls>>
    /\ UNCHANGED vvars

\* One turn of `while True`, lines 62-78.
RecvLoop ==
    /\ pc = "loop"
    /\ nframes < MaxFrames
    /\ \E m \in Frames :
         LET r == LoopBody(m)
         IN  /\ msg' = m
             /\ nframes' = nframes + 1
             /\ IF r.exc = "none"
                THEN /\ out' = r.out
                     /\ pc' = "loop"
                     /\ UNCHANGED <<conn, exc, exitCode>>
                ELSE EndSession(r.exc, r.out)
    /\ UNCHANGED <<argv, port, sent, pingLog, adbCalls, connectCalls>>
    /\ UNCHANGED vvars

\* The peer closes the connection while the listener awaits send or recv:
\* websockets raises ConnectionClosed, caught at line 83.
ConnectionClosed ==
    /\ pc \in {"send", "recv_first", "loop"}
    /\ EndSession("ConnectionClosed", <<>>)
    /\ UNCHANGED <<argv, port, sent, msg, nframes, pingLog, adbCalls, connectCalls>>
    /\ UNCHANGED vvars

\* Ctrl+C while the listener is suspended in asyncio.run (connect, send or
\* recv): the task is cancelled, the `async with` block is left, and main
\* catches KeyboardInterrupt at line 106.
Interrupt ==
    /\ pc \in {"connect", "send", "recv_first", "loop"}
    /\ EndSession("KeyboardInterrupt", <<>>)
    /\ UNCHANGED <<argv, port, sent, msg, nframes, pingLog, adbCalls, connectCalls>>
    /\ UNCHANGED vvars

\* Ctrl+C while subprocess.run waits for adb (line 14): KeyboardInterrupt is
\* no Exception, nothing in main catches it: the interpreter ends on SIGINT,
\* which a shell reports as status 130.
InterruptAdb ==
    /\ pc = "adb"
    /\ adbCalls' = adbCalls + 1
    /\ exc' = "KeyboardInterrupt"
    /\ out' = <<Msg("adb_setup")>>
    /\ exitCode' = 130
    /\ pc' = "exited"
    /\ UNCHANGED <<argv, port, conn, sent, msg, nframes, pingLog, connectCalls>>
    /\ UNCHANGED vvars

(***************************************************************************)
(* vision_client.py                                                        *)
(***************************************************************************)
\* Optional values: Python None or a value.
NoBytes == [isNone |-> TRUE, bytes |-> <<>>]
SomeBytes(b) == [isNone |-> FALSE, bytes |-> b]
NoJson == [isNone |-> TRUE, val |-> PyNone]
\* A parsed JSON null is Python's None.
SomeJson(v) == [isNone |-> v = PyNone, val |-> v]

\* A variant testing `image_data is not None` in place of truthiness.
BytesTruthy_NotNone(b) == ~b.isNone

\* `if image_data:` / `if not image_data:` on an optional byte string.
BytesTruthy(b) == ~b.isNone /\ Len(b.bytes) > 0
\* A variant testing `explanation is not None` in place of truthiness.
JsonTruthy_NotNone(j) == ~j.isNone

\* `if explanation:` on an optional JSON value.
JsonTruthy(j) == ~j.isNone /\ Truthy(j.val)

VLine(kind, text, val) == [kind |-> kind, text |-> text, val |-> val]

\* What an HTTP request can meet: an exception of the transport, or a
\* response with a status, a body (bytes) and the body's text (tokens).
NoOutcome == [kind |-> "none", status |-> 0, content |-> <<>>, text |-> <<>>]
Statuses == {200, 204, 304, 404, 500}
ImageBodies == {<<>>, <<255>>, <<255, 216>>}
ResponseTexts ==
    {Dumps(v) : v \in NonObjects \cup
                     { Dict(<<>>), List(<<Num("1")>>),
                       Dict(<<Entry("text", Str("x"))>>),
                       Dict(<<Entry("success", PyFalse), Entry("message", Str(""))>>) }}
    \cup { <<>>, <<Tok("junk", "hello")>>, <<LBrace, Tok("str", "text"), Colon>> }
GetOutcomes ==
    {[kind |-> k, status |-> 0, content |-> <<>>, text |-> <<>>] :
        k \in {"ConnectionError", "Timeout"}}
    \cup {[kind |-> "response", status |-> st, content |-> b, text |-> <<>>] :
            st \in Statuses, b \in ImageBodies}
PostOutcomes ==
    {[kind |-> k, status |-> 0, content |-> <<>>, text |-> <<>>] :
        k \in {"ConnectionError", "Timeout"}}
    \cup {[kind |-> "response", status |-> st, content |-> <<>>, text |-> t] :
            st \in Statuses, t \in ResponseTexts}

\* Exceptions of requests.exceptions, all subclasses of RequestException
\* (requests.exceptions.JSONDecodeError among them).
RequestExceptions == {"ConnectionError", "Timeout", "HTTPError", "JSONDecodeError"}

\* response.raise_for_status(): HTTPError for a 4xx or 5xx status.
RaiseForStatus(status) == IF status >= 400 /\ status < 600 THEN "HTTPError" ELSE "none"

\* A variant catching requests.exceptions.HTTPError only.
Caught_HTTPErrorOnly(e) == e = "HTTPError"

\* `except requests.exceptions.RequestException as e`
Caught(e) == e \in RequestExceptions

Request(method, url, token, timeout, file, question) ==
    [method |-> method, url |-> url, auth |-> "Bearer " \o token, timeout |-> timeout,
     file |-> file, question |-> question]

\* VisionClient.__init__, lines 6-9.
VisionClient(screenshot_base_url, vision_explain_url, auth_token) ==
    [screenshot_base_url |-> screenshot_base_url,
     vision_explain_url |-> vision_explain_url,
     auth_token |-> auth_token]

\* A variant of get_screenshot that repeats the GET once after a failure.
GetScreenshot_Retry(self, o) ==
    LET request == Request("GET", self.screenshot_base_url \o "/screenshot",
                           self.auth_token, 15, <<>>, "")
        e == IF o.kind # "response" THEN o.kind ELSE RaiseForStatus(o.status)
    IN  IF e = "none"
        THEN [reqs |-> <<request>>, ret |-> SomeBytes(o.content), log |-> <<>>,
              raised |-> "none"]
        ELSE [reqs |-> <<request, request>>, ret |-> NoBytes,
              log |-> <<VLine("screenshot_failed", e, PyNone)>>, raised |-> "none"]

\* VisionClient.get_screenshot, lines 11-25, when the GET meets outcome o.
\* [reqs, ret, log, raised].
GetScreenshot(self, o) ==
    LET request == Request("GET", self.screenshot_base_url \o "/screenshot",
                           self.auth_token, 15, <<>>, "")
        e == IF o.kind # "response" THEN o.kind ELSE RaiseForStatus(o.status)
    IN  IF e = "none"
        THEN [reqs |-> <<request>>, ret |-> SomeBytes(o.content), log |-> <<>>,
              raised |-> "none"]
        ELSE IF Caught(e)
        THEN [reqs |-> <<request>>, ret |-> NoBytes,
              log |-> <<VLine("screenshot_failed", e, PyNone)>>, raised |-> "none"]
        ELSE [reqs |-> <<request>>, ret |-> NoBytes, log |-> <<>>, raised |-> e]

\* VisionClient.upload_image_for_explanation, lines 27-53, when the POST (if
\* one is made) meets outcome o. [reqs, ret, log, raised].
UploadImageForExplanation(self, image, question, o) ==
    LET request == Request("POST", self.vision_explain_url, self.auth_token, 30,
                           image.bytes, question)
        parsed == JsonLoads(o.text)
        e == IF o.kind # "response" THEN o.kind
             ELSE IF RaiseForStatus(o.status) # "none" THEN RaiseForStatus(o.status)
             ELSE IF ~parsed.ok THEN "JSONDecodeError"
             ELSE "none"
    IN  IF ~BytesTruthy(image)
        THEN [reqs |-> <<>>, ret |-> NoJson, log |-> <<VLine("no_image_data", "", PyNone)>>,
              raised |-> "none"]
        ELSE IF e = "none"
        THEN [reqs |-> <<request>>, ret |-> SomeJson(parsed.val), log |-> <<>>,
              raised |-> "none"]
        ELSE IF Caught(e)
        THEN [reqs |-> <<request>>, ret |-> NoJson,
              log |-> <<VLine("upload_failed", e, PyNone)>>, raised |-> "none"]
        ELSE [reqs |-> <<request>>, ret |-> NoJson, log |-> <<>>, raised |-> e]

NoCall == [m |-> "none", image |-> NoBytes, question |-> ""]
NoArgs == [screenshot_base_url |-> "", vision_explain_url |-> "", token |-> "",
           question |-> ""]

\* The listener's specification leaves the vision program out.
VisionIdle ==
    /\ vpc = "off"
    /\ call = NoCall
    /\ outcome = NoOutcome
    /\ image_data = NoBytes
    /\ explanation = NoJson
    /\ raised = "none"
    /\ reqs = <<>>
    /\ vout = <<>>
    /\ ncalls = 0
    /\ args = NoArgs
    /\ client = VisionClient("", "", "")

\* ---- the command-line main flow, lines 55-86 ----
Tokens == {"test-token", ""}
Questions == {"describe the screen", ""}
ArgSets ==
    {[screenshot_base_url |-> "http://192.168.6.134:8080",
      vision_explain_url |-> "http://api.xiaozhi.me/vision/explain",
      token |-> t, question |-> q] : t \in Tokens, q \in Questions}

VMainInit ==
    /\ vpc = "start"
    /\ args \in ArgSets
    /\ client = VisionClient("", "", "")
    /\ call = NoCall
    /\ outcome = NoOutcome
    /\ image_data = NoBytes
    /\ explanation = NoJson
    /\ raised = "none"
    /\ reqs = <<>>
    /\ vout = <<>>
    /\ ncalls = 0

\* Lines 70-77 and 85-86: build the client, fetch the screenshot, and either
\* go on to the upload or report that there is no screenshot.
VMainGet ==
    /\ vpc = "start"
    /\ client' = VisionClient(args.screenshot_base_url, args.vision_explain_url, args.token)
    /\ \E o \in GetOutcomes :
         LET r == GetScreenshot(client', o)
         IN  /\ outcome' = o
             /\ call' = [m |-> "get_screenshot", image |-> NoBytes, question |-> ""]
             /\ reqs' = reqs \o r.reqs
             /\ image_data' = r.ret
             /\ raised' = r.raised
             /\ IF r.raised # "none"
                THEN /\ vout' = <<VLine("fetching", "", PyNone)>> \o r.log
                     /\ vpc' = "crashed"
                ELSE IF BytesTruthy(r.ret)
                THEN /\ vout' = <<VLine("fetching", "", PyNone)>> \o r.log
                                \o <<VLine("got_bytes", "", PyNone),
                                     VLine("uploading", args.question, PyNone)>>
                     /\ vpc' = "upload"
                ELSE /\ vout' = <<VLine("fetching", "", PyNone)>> \o r.log
                                \o <<VLine("no_screenshot", "", PyNone)>>
                     /\ vpc' = "done"
    /\ UNCHANGED <<explanation, ncalls, args>>
    /\ UNCHANGED lvars

\* Lines 78-84: upload, then print the result or that there is none.
VMainUpload ==
    /\ vpc = "upload"
    /\ \E o \in PostOutcomes :
         LET r == UploadImageForExplanation(client, image_data, args.question, o)
         IN  /\ outcome' = o
             /\ call' = [m |-> "upload_image_for_explanation", image |-> image_data,
                         question |-> args.question]
             /\ reqs' = reqs \o r.reqs
             /\ explanation' = r.ret
             /\ raised' = r.raised
             /\ IF r.raised # "none"
                THEN /\ vout' = vout \o r.log
                     /\ vpc' = "crashed"
                ELSE IF JsonTruthy(r.ret)
                THEN /\ vout' = vout \o r.log
                                \o <<VLine("result_header", "", PyNone),
                                     VLine("result", "", r.ret.val)>>
                     /\ vpc' = "done"
                ELSE /\ vout' = vout \o r.log \o <<VLine("no_result", "", PyNone)>>
                     /\ vpc' = "done"
    /\ UNCHANGED <<image_data, ncalls, args, client>>
    /\ UNCHANGED lvars

\* ---- a caller of the VisionClient API ----
Configs ==
    {VisionClient("http://device:8080", "http://api/vision/explain", t) : t \in Tokens}
ImageArgs == {NoBytes} \cup {SomeBytes(b) : b \in ImageBodies}

ClientInit ==
    /\ vpc = "idle"
    /\ client \in Configs
    /\ args = NoArgs
    /\ call = NoCall
    /\ outcome = NoOutcome
    /\ image_data = NoBytes
    /\ explanation = NoJson
    /\ raised = "none"
    /\ reqs = <<>>
    /\ vout = <<>>
    /\ ncalls = 0

CallGetScreenshot ==
    /\ vpc = "idle"
    /\ ncalls < MaxCalls
    /\ \E o \in GetOutcomes :
         LET r == GetScreenshot(client, o)
         IN  /\ outcome' = o
             /\ call' = [m |-> "get_screenshot", image |-> NoBytes, question |-> ""]
             /\ reqs' = r.reqs
             /\ image_data' = r.ret
             /\ raised' = r.raised
             /\ vout' = r.log
    /\ ncalls' = ncalls + 1
    /\ UNCHANGED <<vpc, explanation, args, client>>
    /\ UNCHANGED lvars

CallUpload ==
    /\ vpc = "idle"
    /\ ncalls < MaxCalls
    /\ \E image \in ImageArgs, question \in Questions, o \in PostOutcomes :
         LET r == UploadImageForExplanation(client, image, question, o)
         IN  /\ outcome' = IF r.reqs = <<>> THEN NoOutcome ELSE o
             /\ call' = [m |-> "upload_image_for_explanation", image |-> image,
                         question |-> question]
             /\ reqs' = r.reqs
             /\ explanation' = r.ret
             /\ raised' = r.raised
             /\ vout' = r.log
    /\ ncalls' = ncalls + 1
    /\ UNCHANGED <<vpc, image_data, args, client>>
    /\ UNCHANGED lvars

\* The vision specifications leave the listener out.
ListenerIdle ==
    /\ pc = "off"
    /\ argv = <<Prog>>
    /\ port = DEFAULT_PORT
    /\ conn = "none"
    /\ sent = <<>>
    /\ msg = <<>>
    /\ nframes = 0
    /\ out = <<>>
    /\ pingLog = "none"
    /\ exc = "none"
    /\ exitCode = -1
    /\ adbCalls = 0
    /\ connectCalls = 0

Init == ListenerInit /\ VisionIdle
Next ==
    \/ Main
    \/ SetupAdbForward
    \/ Connect
    \/ SendPing
    \/ RecvFirst
    \/ RecvLoop
    \/ ConnectionClosed
    \/ Interrupt
    \/ InterruptAdb
Spec == Init /\ [][Next]_vars

InitMain == VMainInit /\ ListenerIdle
NextMain ==
    \/ VMainGet
    \/ VMainUpload
SpecMain == InitMain /\ [][NextMain]_vars

InitClient == ClientInit /\ ListenerIdle
NextClient ==
    \/ CallGetScreenshot
    \/ CallUpload
SpecClient == InitClient /\ [][NextClient]_vars

(***************************************************************************)
(* Properties                                                              *)
(***************************************************************************)
\* The text is a JSON object / the text is {"type": "PONG", ...}.
IsObjectText(m) == JsonLoads(m).ok /\ JsonLoads(m).val.t = "dict"
IsPongText(m) == IsObjectText(m) /\ DictGet(JsonLoads(m).val, "type", PyNone) = Str("PONG")
HTTPSuccess(o) == o.kind = "response" /\ o.status >= 200 /\ o.status <= 299

\* C1: after the PING, the first frame received decides the liveness check:
\* a PONG is logged as passed; any other first frame is logged as failed, the
\* connection stays open and the listener enters the receive loop.
C1_FirstFrameDecides ==
    [][(pc = "recv_first" /\ nframes' = nframes + 1)
        => IF IsPongText(msg')
           THEN pingLog' = "passed"
           ELSE pingLog' = "failed" /\ conn' = "open" /\ pc' = "loop"]_vars

\* C2: in the receive loop, at any position, a frame that is not valid JSON
\* is printed raw and the loop goes on awaiting the next frame: the session
\* is not ended and the connection is not closed.
C2_NonJsonFrameKeepsLoop ==
    [][(pc = "loop" /\ nframes' = nframes + 1 /\ ~JsonLoads(msg').ok)
        => /\ out' = <<RawLine(msg')>>
           /\ pc' = "loop"
           /\ conn' = "open"
           /\ exc' = "none"
           /\ exitCode' = -1]_vars

C2_Witness ==
    /\ pc = "loop"
    /\ nframes >= 3
    /\ msg = <<LBrace, Tok("str", "type"), Colon>>
    /\ out = <<RawLine(msg)>>
    /\ conn = "open"

\* C3: once the receive loop is entered, the session ends only through an
\* operator interrupt or the closure of the connection: no content of a
\* frame makes the loop exit.
C3_LoopEndsOnlyByInterruptOrClosure ==
    [][(pc = "loop" /\ pc' # "loop")
        => exc' \in {"KeyboardInterrupt", "ConnectionClosed"}]_vars

\* The lines printed for a JSON object frame: the header, then one line per
\* pair of a mapping payload, in order and each pair once, or one scalar
\* line for another payload, or nothing for an absent payload; then a blank.
PayloadPrinted(event, lines) ==
    LET n == Len(lines)
        p == DictGet(event, "payload", PyNone)
    IN  /\ n >= 2
        /\ lines[1].kind = "header"
        /\ lines[n].kind = "blank"
        /\ IF ~HasKey(event, "payload") THEN n = 2
           ELSE IF p.t = "dict"
           THEN /\ n = Len(p.items) + 2
                /\ \A i \in 1..Len(p.items) :
                     /\ lines[i + 1] = KVLine(p.items[i].k, p.items[i].v)
                     /\ Cardinality({j \in 1..n : lines[j].kind = "kv"
                                                  /\ lines[j].key = p.items[i].k}) = 1
           ELSE n = 3 /\ lines[2] = ScalarLine(p)

\* C4: for every JSON object frame handled by the receive loop, a mapping
\* payload has each of its pairs printed exactly once, in the mapping's
\* order, after the header line; a payload that is present and no mapping is
\* printed as one scalar line; an absent payload prints no payload line.
C4_PayloadPrinting ==
    (pc = "loop" /\ nframes >= 2 /\ IsObjectText(msg))
        => PayloadPrinted(JsonLoads(msg).val, out)

C4_Witness ==
    /\ pc = "loop"
    /\ nframes >= 2
    /\ IsObjectText(msg)
    /\ DictGet(JsonLoads(msg).val, "payload", PyNone)
         = Dict(<<Entry("b", Str("x")), Entry("a", Num("1"))>>)
    /\ Len(out) = 4
    /\ out[2] = KVLine("b", Str("x"))
    /\ out[3] = KVLine("a", Num("1"))

\* C5: the connection opened by test_connection is closed on every path that
\* leaves the session: no terminal state of the listener has it still open.
C5_ClosedOnEveryExit ==
    /\ pc = "exited" => conn # "open"
    /\ (pc = "exited" /\ nframes > 0) => conn = "closed"

C5_Witness ==
    /\ pc = "exited"
    /\ exc = "KeyboardInterrupt"
    /\ nframes >= 2
    /\ conn = "closed"
    /\ out = <<Msg("stopped_by_user")>>

\* C6: started with a first argument that is no integer, main prints the
\* usage text and exits with status 1, and neither `adb forward` nor a
\* WebSocket connection attempt happens before that exit.
C6_BadPortExits ==
    /\ \A a \in StringsUpTo(MaxArgLen) : (\E i \in 1..Len(a) : a[i] = "a") => ~PyInt(a).ok
    /\ (Len(argv) > 1 /\ ~PyInt(argv[2]).ok /\ pc # "main")
         => /\ pc = "exited"
            /\ exitCode = 1
            /\ out = <<Msg("usage"), Msg("default_port")>>
            /\ adbCalls = 0
            /\ connectCalls = 0
            /\ conn = "none"

C6_Witness ==
    /\ pc = "exited"
    /\ argv = <<Prog, <<"a", "8">> >>
    /\ exitCode = 1
    /\ adbCalls = 0
    /\ connectCalls = 0

\* C7: upload_image_for_explanation called with an empty byte sequence or
\* with None returns None and issues no HTTP request, whatever the question
\* and the client's configuration.
C7_EmptyImageNoRequest ==
    (call.m = "upload_image_for_explanation"
        /\ (call.image.isNone \/ call.image.bytes = <<>>))
        => /\ explanation.isNone
           /\ reqs = <<>>
           /\ raised = "none"

C7_Witness ==
    /\ call.m = "upload_image_for_explanation"
    /\ call.image = SomeBytes(<<>>)
    /\ call.question # ""
    /\ client.auth_token # ""
    /\ explanation.isNone
    /\ reqs = <<>>

\* C8 as stated: get_screenshot never raises; on a transport error, a
\* timeout or a non-2xx status it logs and returns None; it returns the
\* response bytes only when the status is 2xx.
C8_BytesOnlyOn2xx ==
    call.m = "get_screenshot"
        => /\ raised = "none"
           /\ ~HTTPSuccess(outcome)
                => image_data.isNone /\ Len(vout) = 1 /\ vout[1].kind = "screenshot_failed"
           /\ ~image_data.isNone => HTTPSuccess(outcome)

\* C8 amended: get_screenshot never raises; on a transport error, a timeout
\* or a 4xx/5xx status it logs and returns None; it returns the response
\* bytes exactly when a response arrives whose status is below 400.
C8_BytesUnlessError ==
    call.m = "get_screenshot"
        => /\ raised = "none"
           /\ Len(reqs) = 1
           /\ (outcome.kind # "response" \/ outcome.status >= 400)
                => image_data.isNone /\ Len(vout) = 1 /\ vout[1].kind = "screenshot_failed"
           /\ (outcome.kind = "response" /\ outcome.status < 400)
                => image_data = SomeBytes(outcome.content) /\ vout = <<>>

C8_Witness ==
    /\ call.m = "get_screenshot"
    /\ outcome.kind = "response"
    /\ outcome.status = 304
    /\ image_data = SomeBytes(outcome.content)
    /\ raised = "none"

Methods(rs) == [i \in 1..Len(rs) |-> rs[i].method]
FinalKinds == {"result", "no_result", "no_screenshot"}
Finals == {i \in 1..Len(vout) : vout[i].kind \in FinalKinds}
LastKind == IF vout = <<>> THEN "" ELSE vout[Len(vout)].kind

\* C9: one invocation of the vision main flow issues at most one screenshot
\* GET and at most one explanation POST, the POST only after the GET
\* returned data; after a failed GET or a failed POST no further request is
\* made: the failure is reported and the program ends.
C9_OneGetOnePostNoRetry ==
    /\ Methods(reqs) \in {<<>>, <<"GET">>, <<"GET", "POST">>}
    /\ vpc \in {"start", "upload", "done"}
    /\ Len(reqs) = 2 => (~image_data.isNone /\ reqs[2].file = image_data.bytes)
    /\ (vpc # "start" /\ image_data.isNone)
         => /\ vpc = "done"
            /\ Methods(reqs) = <<"GET">>
            /\ \E i \in 1..Len(vout) : vout[i].kind = "screenshot_failed"
            /\ LastKind = "no_screenshot"
    /\ (Len(reqs) = 2 /\ (outcome.kind # "response" \/ outcome.status >= 400
                            \/ ~JsonLoads(outcome.text).ok))
         => /\ vpc = "done"
            /\ explanation.isNone
            /\ \E i \in 1..Len(vout) : vout[i].kind = "upload_failed"
            /\ LastKind = "no_result"

C9_Witness ==
    /\ vpc = "done"
    /\ Methods(reqs) = <<"GET", "POST">>
    /\ outcome.kind = "Timeout"
    /\ explanation.isNone
    /\ LastKind = "no_result"

FalsyJson == {Dict(<<>>), List(<<>>), Num("0"), PyFalse, PyNone, Str("")}

\* C10: the main flow decides by truthiness: it prints the result exactly
\* when get_screenshot returned a non-empty byte sequence and the upload
\* returned a truthy value; a 2xx screenshot response with an empty body is
\* reported as no screenshot and no POST is issued; a 2xx explanation whose
\* JSON is falsy is reported as no result; exactly one of the three final
\* messages is printed per invocation.
C10_TruthinessDecides ==
    vpc = "done"
        => /\ Cardinality(Finals) = 1
           /\ LastKind \in FinalKinds
           /\ LastKind = "result"
                <=> /\ ~image_data.isNone /\ image_data.bytes # <<>>
                    /\ ~explanation.isNone /\ explanation.val \notin FalsyJson
           /\ (call.m = "get_screenshot" /\ HTTPSuccess(outcome) /\ outcome.content = <<>>)
                => LastKind = "no_screenshot" /\ Methods(reqs) = <<"GET">>
           /\ (call.m = "upload_image_for_explanation" /\ HTTPSuccess(outcome)
                 /\ JsonLoads(outcome.text).ok /\ JsonLoads(outcome.text).val \in FalsyJson)
                => LastKind = "no_result"

C10_Witness ==
    /\ vpc = "done"
    /\ call.m = "upload_image_for_explanation"
    /\ outcome.status = 200
    /\ outcome.text = <<LBrace, RBrace>>
    /\ explanation = SomeJson(Dict(<<>>))
    /\ LastKind = "no_result"

====
